---------------------------- MODULE Spec2Model ----------------------------
(***************************************************************************)
(* Client-side scripts of the survey builder.                              *)
(*                                                                         *)
(*   admin page   src/static/admin_script.js (src/unnamed/part_000 is an   *)
(*                earlier copy with the same handlers): upload, copy link, *)
(*                share by email, download.                                *)
(*   share modal  src/unnamed/part_001: openShareModal, closeShareModal,   *)
(*                sendEmail.                                               *)
(*   survey page  src/static/survey_script.js: the submit handler.         *)
(*                                                                         *)
(* One browser document runs one of the scripts; `page` says which.  A     *)
(* fetch is a request record in `pending` until a settle action delivers   *)
(* its outcome and runs the rest of the handler.  The two awaits of a      *)
(* handler (fetch, then response.json()) follow each other with no         *)
(* statement between them, so they are delivered as one outcome.           *)
(* `lastStep` records the handler step just taken: the request it issued   *)
(* or settled, the outcome delivered and the notice shown to the user.     *)
(***************************************************************************)
EXTENDS Integers, Sequences, FiniteSets, TLC

\* ------------------------------------------------------------- bounds
\* User events (file selections, email clicks, sendEmail calls, submits)
\* per page load.
MaxEvents == 2
\* Longest location.pathname of the survey page, in characters.
MaxPathLen == 3

\* ------------------------------------------------------- JavaScript values
UNDEF == "<undefined>"
NULL == "<null>"

\* JavaScript truthiness of undefined, null and strings.
Truthy(x) == x \notin {UNDEF, NULL, ""}

\* a || b
OrElse(a, b) == IF Truthy(a) THEN a ELSE b

\* Strings the scripts inspect character by character are sequences of
\* one-character strings.
SeqsUpTo(S, n) == UNION {[1..k -> S] : k \in 0..n}

\* !s for such a string: only the empty string is falsy.
EmptyStr(s) == Len(s) = 0

\* String.prototype.includes for a one-character needle.
Includes(s, c) == \E i \in 1..Len(s) : s[i] = c

RECURSIVE SplitAcc(_, _, _, _, _)
SplitAcc(s, sep, i, segs, cur) ==
    IF i > Len(s) THEN Append(segs, cur)
    ELSE IF s[i] = sep THEN SplitAcc(s, sep, i + 1, Append(segs, cur), <<>>)
    ELSE SplitAcc(s, sep, i + 1, segs, Append(cur, s[i]))

\* String.prototype.split for a one-character separator.
Split(s, sep) == SplitAcc(s, sep, 1, <<>>, <<>>)

\* ------------------------------------------------------------- the backend
\* What a request can settle with: the fetch rejects (net = "failed"), or a
\* response arrives with its status (ok) and a body that response.json()
\* turns into an object, into null, or fails to parse.
NoBody == [shape |-> "none", error |-> UNDEF, message |-> UNDEF,
           survey_id |-> UNDEF, survey_url |-> UNDEF]

Obj(error, message, survey_id, survey_url) ==
    [shape |-> "object", error |-> error, message |-> message,
     survey_id |-> survey_id, survey_url |-> survey_url]

Unparseable == [NoBody EXCEPT !.shape = "unparseable"]
NullBody == [NoBody EXCEPT !.shape = "null"]

NetFailure == [net |-> "failed", ok |-> FALSE, body |-> NoBody]
NoOutcome == [net |-> "none", ok |-> FALSE, body |-> NoBody]

Responses(bodies) == {[net |-> "ok", ok |-> o, body |-> b] : o \in BOOLEAN, b \in bodies}

ErrorTexts == {UNDEF, "", "E"}

\* POST /submit/<survey_id>: success or {error}.
SubmitOutcomes ==
    {NetFailure} \cup
    Responses({Unparseable, NullBody} \cup {Obj(e, UNDEF, UNDEF, UNDEF) : e \in ErrorTexts})

\* POST /share_email: {message} or {error}.
MessageTexts == {UNDEF, "M"}

ShareEmailOutcomes ==
    {NetFailure} \cup
    Responses({Unparseable, NullBody} \cup
              {Obj(e, m, UNDEF, UNDEF) : e \in ErrorTexts, m \in MessageTexts})

\* The Survey the backend creates for the upload request with this id.
SurveyIdFor(id) == "s" \o ToString(id)
SurveyUrlFor(id) == "/survey/" \o SurveyIdFor(id)

\* POST /upload: {survey_id, survey_url} or {error}.
UploadOutcomes(id) ==
    {NetFailure} \cup
    Responses({Unparseable, NullBody, Obj(UNDEF, UNDEF, SurveyIdFor(id), SurveyUrlFor(id))}
              \cup {Obj(e, UNDEF, UNDEF, UNDEF) : e \in ErrorTexts})

\* Reading a property of the parsed body throws a TypeError when it is null.
ReadThrows(body) == body.shape = "null"

\* element.textContent = x: undefined and null give the empty string.
ToTextContent(x) == IF x \in {UNDEF, NULL} THEN "" ELSE x

\* input.value = x: undefined gives the string "undefined".
ToInputValue(x) == IF x = UNDEF THEN "undefined" ELSE x

\* ------------------------------------------------------------------ state
VARIABLES
    page,                 \* which script the document runs
    events,               \* user events that reached a request-issuing handler
    sent,                 \* fetches issued so far
    pending,              \* the fetches that have not settled
    alertText,            \* text of the last alert() shown
    lastStep,             \* the handler step just taken
    created,              \* survey ids the backend returned with an OK upload response
    accepted,             \* submissions the backend answered with an OK status
    \* admin page
    currentSurveyId, shareLinkInput, uploadScreenHidden, publishedScreenHidden,
    modalTitle, modalMessage, modalShown, href,
    \* share modal
    btnExists, btnHTML, btnDisabled, shareModalHidden, modalLinkInput,
    \* survey page
    pathname, checked, formDisabled, successModalHidden

netVars == <<events, sent, pending>>
adminVars == <<currentSurveyId, shareLinkInput, uploadScreenHidden,
               publishedScreenHidden, modalTitle, modalMessage, modalShown, href>>
shareVars == <<btnExists, btnHTML, btnDisabled, shareModalHidden, modalLinkInput>>
surveyVars == <<pathname, checked, formDisabled, successModalHidden>>
vars == <<page, netVars, alertText, lastStep, created, accepted, adminVars, shareVars, surveyVars>>

NoNotice == [via |-> "none", title |-> UNDEF, text |-> UNDEF]
Alert(text) == [via |-> "alert", title |-> UNDEF, text |-> text]
Modal(title, text) == [via |-> "modal", title |-> title, text |-> text]
SuccessModalNotice == [via |-> "successModal", title |-> UNDEF, text |-> UNDEF]

Url(prefix, id) == [prefix |-> prefix, id |-> id]

NoRequest == [id |-> 0, kind |-> "none", url |-> Url("", <<>>),
              payload |-> UNDEF, orig |-> UNDEF]

\* The fetch a handler issues: the id is its place in the order of issue.
NewRequest(kind, url, payload, orig) ==
    [id |-> sent + 1, kind |-> kind, url |-> url, payload |-> payload, orig |-> orig]

\* A handler step: what it issued or settled, with what outcome, showing what.
Step(op, req, resp, shown) ==
    [op |-> op, input |-> UNDEF, req |-> req, resp |-> resp, shown |-> shown]

\* A handler step run on a user event with this input, issuing the fetches
\* in reqs (none, or one).
Issue(op, input, reqs, shown) ==
    /\ events' = events + 1
    /\ sent' = sent + Cardinality(reqs)
    /\ pending' = pending \cup reqs
    /\ lastStep' = [Step(op, IF reqs = {} THEN NoRequest ELSE CHOOSE r \in reqs : TRUE,
                         NoOutcome, shown) EXCEPT !.input = input]

\* ------------------------------------------------------------ survey page
PathChars == {"/", "a"}

\* location.pathname always starts with "/".
Pathnames == {p \in SeqsUpTo(PathChars, MaxPathLen) : Len(p) >= 1 /\ p[1] = "/"}

\* The form: checkboxes in document order; the first two share one name.
Boxes == <<[name |-> "q1", value |-> "a"],
           [name |-> "q1", value |-> "b"],
           [name |-> "q2", value |-> "a"]>>

\* new FormData(form): one entry per checked box, in document order.
RECURSIVE FormDataFrom(_, _)
FormDataFrom(sel, i) ==
    IF i > Len(Boxes) THEN <<>>
    ELSE IF i \in sel THEN <<Boxes[i]>> \o FormDataFrom(sel, i + 1)
    ELSE FormDataFrom(sel, i + 1)

FormData(sel) == FormDataFrom(sel, 1)

\* data[key] = value
SetKey(data, key, value) ==
    [k \in DOMAIN data \cup {key} |-> IF k = key THEN value ELSE data[k]]

\* formData.forEach((value, key) => { data[key] = value; }) from data = {}
RECURSIVE ToObjectFrom(_, _, _)
ToObjectFrom(entries, i, data) ==
    IF i > Len(entries) THEN data
    ELSE ToObjectFrom(entries, i + 1, SetKey(data, entries[i].name, entries[i].value))

EmptyObject == [k \in {} |-> ""]
ToObject(entries) == ToObjectFrom(entries, 1, EmptyObject)

\* pathParts[pathParts.length - 1]
SurveyIdOf(path) == LET pathParts == Split(path, "/") IN pathParts[Len(pathParts)]

\* The check for a missing survey id left out.
SurveyIdMissingNoCheck(surveyId) == FALSE

\* if (!surveyId)
SurveyIdMissing(surveyId) == EmptyStr(surveyId)

SubmitUrl(surveyId) == Url("/submit/", surveyId)

\* The user ticks or unticks a box; a disabled element cannot be changed.
ToggleBox(i) ==
    /\ page = "survey"
    /\ ~formDisabled
    /\ checked' = IF i \in checked THEN checked \ {i} ELSE checked \cup {i}
    /\ lastStep' = Step("ToggleBox", NoRequest, NoOutcome, NoNotice)
    /\ UNCHANGED <<page, created, accepted, netVars, alertText, adminVars, shareVars,
                   pathname, formDisabled, successModalHidden>>

\* The fetch issued a second time.
SubmitRequestsTwice(surveyId, sel) ==
    IF SurveyIdMissing(surveyId) THEN {}
    ELSE {[id |-> sent + k, kind |-> "submit", url |-> SubmitUrl(surveyId),
           payload |-> ToObject(FormData(sel)), orig |-> UNDEF] : k \in {1, 2}}

\* The fetches a submit event issues (none on the early return).
SubmitRequests(surveyId, sel) ==
    IF SurveyIdMissing(surveyId) THEN {}
    ELSE {NewRequest("submit", SubmitUrl(surveyId), ToObject(FormData(sel)), UNDEF)}

SubmitEarlyNotice(surveyId) ==
    IF SurveyIdMissing(surveyId)
      THEN Alert("Error: Cannot submit form without a survey ID.")
      ELSE NoNotice

\* The submit event, up to the fetch.  A form whose elements are all
\* disabled has no control left to submit it with.
Submit ==
    /\ page = "survey"
    /\ ~formDisabled
    /\ events < MaxEvents
    /\ LET surveyId == SurveyIdOf(pathname) IN
        /\ Issue("Submit", FormData(checked), SubmitRequests(surveyId, checked), SubmitEarlyNotice(surveyId))
        /\ alertText' = IF SurveyIdMissing(surveyId)
                          THEN SubmitEarlyNotice(surveyId).text
                          ELSE alertText
    /\ UNCHANGED <<page, created, accepted, adminVars, shareVars, surveyVars>>

\* The Response an OK answer to POST /submit/<survey_id> stands for.
AcceptedBy(outcome) == IF outcome.net = "ok" /\ outcome.ok THEN 1 ELSE 0

\* Which branch the rest of the submit handler takes.
SubmitBranch(outcome) ==
    IF outcome.net = "failed" \/ outcome.body.shape = "unparseable" THEN "catch"
    ELSE IF outcome.ok THEN "success"
    ELSE IF ReadThrows(outcome.body) THEN "catch"
    ELSE "error"

SubmitNotice(outcome) ==
    CASE SubmitBranch(outcome) = "success" -> SuccessModalNotice
      [] SubmitBranch(outcome) = "error" ->
            Alert("Error: " \o OrElse(outcome.body.error, "Could not submit survey."))
      [] OTHER -> Alert("An error occurred while submitting the form.")

\* The rest of the submit handler, from the settled fetch on.
SubmitSettle(r, outcome) ==
    /\ page = "survey"
    /\ r \in pending
    /\ r.kind = "submit"
    /\ pending' = pending \ {r}
    /\ IF SubmitBranch(outcome) = "success"
         THEN /\ successModalHidden' = FALSE
              /\ checked' = {}
              /\ formDisabled' = TRUE
              /\ UNCHANGED alertText
         ELSE /\ alertText' = SubmitNotice(outcome).text
              /\ UNCHANGED <<checked, formDisabled, successModalHidden>>
    /\ lastStep' = Step("SubmitSettle", r, outcome, SubmitNotice(outcome))
    /\ accepted' = accepted + AcceptedBy(outcome)
    /\ UNCHANGED <<page, created, events, sent, adminVars, shareVars, pathname>>

NextSurvey ==
    \/ \E i \in 1..Len(Boxes) : ToggleBox(i)
    \/ Submit
    \/ \E r \in pending, o \in SubmitOutcomes : SubmitSettle(r, o)

\* -------------------------------------------------------------- admin page
\* What the user has typed into the email input: nothing, text without an
\* '@', text with one.
Emails == {<<>>, <<"a", "b">>, <<"a", "@", "b">>}

\* event.target.files[0]: the chosen file, or undefined.
Files == {"survey.xlsx", UNDEF}

\* showModal(title, message)
ShowModal(title, message) ==
    /\ modalTitle' = title
    /\ modalMessage' = ToTextContent(message)
    /\ modalShown' = TRUE

\* closeModalButton click: hideModal()
CloseModal ==
    /\ page = "admin"
    /\ modalShown
    /\ modalShown' = FALSE
    /\ lastStep' = Step("CloseModal", NoRequest, NoOutcome, NoNotice)
    /\ UNCHANGED <<page, created, accepted, netVars, alertText, shareVars, surveyVars, currentSurveyId,
                   shareLinkInput, uploadScreenHidden, publishedScreenHidden,
                   modalTitle, modalMessage, href>>

\* if (!file) return;
NoFile(file) == ~Truthy(file)

UploadRequests(file) ==
    IF NoFile(file) THEN {}
    ELSE {NewRequest("upload", Url("/upload", <<>>), file, UNDEF)}

\* fileInput change, up to the fetch.
SelectFile(file) ==
    /\ page = "admin"
    /\ events < MaxEvents
    /\ Issue("SelectFile", file, UploadRequests(file), NoNotice)
    /\ UNCHANGED <<page, created, accepted, alertText, adminVars, shareVars, surveyVars>>

\* The survey an OK upload response announces.
CreatedBy(outcome) ==
    IF outcome.net = "ok" /\ outcome.ok /\ Truthy(outcome.body.survey_id)
      THEN {outcome.body.survey_id} ELSE {}

\* The response's status left unread: any parsed body counts as a success.
UploadBranchIgnoresStatus(outcome) ==
    IF outcome.net = "failed" \/ outcome.body.shape = "unparseable" THEN "catch"
    ELSE IF ReadThrows(outcome.body) THEN "catch"
    ELSE "success"

\* Which branch the rest of the upload handler takes.
UploadBranch(outcome) ==
    IF outcome.net = "failed" \/ outcome.body.shape = "unparseable" THEN "catch"
    ELSE IF ReadThrows(outcome.body) THEN "catch"
    ELSE IF outcome.ok THEN "success"
    ELSE "error"

UploadNotice(outcome) ==
    CASE UploadBranch(outcome) = "success" ->
            Modal("Success!", "Your form has been published.")
      [] UploadBranch(outcome) = "error" ->
            Modal("Upload Failed", OrElse(outcome.body.error, "An unknown error occurred."))
      [] OTHER -> Modal("Error", "Could not connect to the server.")

\* The rest of the upload handler, from the settled fetch on.
UploadSettle(r, outcome) ==
    /\ page = "admin"
    /\ r \in pending
    /\ r.kind = "upload"
    /\ pending' = pending \ {r}
    /\ IF UploadBranch(outcome) = "success"
         THEN /\ currentSurveyId' = outcome.body.survey_id
              /\ shareLinkInput' = ToInputValue(outcome.body.survey_url)
              /\ uploadScreenHidden' = TRUE
              /\ publishedScreenHidden' = FALSE
         ELSE UNCHANGED <<currentSurveyId, shareLinkInput, uploadScreenHidden,
                          publishedScreenHidden>>
    /\ ShowModal(UploadNotice(outcome).title, UploadNotice(outcome).text)
    /\ lastStep' = Step("UploadSettle", r, outcome, UploadNotice(outcome))
    /\ created' = created \cup CreatedBy(outcome)
    /\ UNCHANGED accepted
    /\ UNCHANGED <<page, events, sent, alertText, href, shareVars, surveyVars>>

\* copyButton click
CopyClick ==
    /\ page = "admin"
    /\ ShowModal("Link Copied", "The survey link is now in your clipboard.")
    /\ lastStep' = Step("CopyClick", NoRequest, NoOutcome,
                        Modal("Link Copied", "The survey link is now in your clipboard."))
    /\ UNCHANGED <<page, created, accepted, netVars, alertText, shareVars, surveyVars, currentSurveyId,
                   shareLinkInput, uploadScreenHidden, publishedScreenHidden, href>>

\* if (!email || !email.includes('@'))
EmailRejected(email) == EmptyStr(email) \/ ~Includes(email, "@")

SharePayload(email, link) == [email |-> email, link |-> link]

EmailRequests(email, link) ==
    IF EmailRejected(email) THEN {}
    ELSE {NewRequest("share_email", Url("/share_email", <<>>),
                     SharePayload(email, link), UNDEF)}

EmailEarlyNotice(email) ==
    IF EmailRejected(email)
      THEN Modal("Error", "Please enter a valid email address.")
      ELSE NoNotice

\* emailButton click, up to the fetch.
EmailClick(email) ==
    /\ page = "admin"
    /\ events < MaxEvents
    /\ Issue("EmailClick", email, EmailRequests(email, shareLinkInput), EmailEarlyNotice(email))
    /\ IF EmailRejected(email)
         THEN ShowModal(EmailEarlyNotice(email).title, EmailEarlyNotice(email).text)
         ELSE UNCHANGED <<modalTitle, modalMessage, modalShown>>
    /\ UNCHANGED <<page, created, accepted, alertText, shareVars, surveyVars, currentSurveyId,
                   shareLinkInput, uploadScreenHidden, publishedScreenHidden, href>>

\* The try/catch left out: a rejected fetch falls into the error branch.
EmailBranchNoCatch(outcome) == IF outcome.ok THEN "success" ELSE "error"

\* Which branch the rest of the email handler takes.
EmailBranch(outcome) ==
    IF outcome.net = "failed" \/ outcome.body.shape = "unparseable" THEN "catch"
    ELSE IF ReadThrows(outcome.body) THEN "catch"
    ELSE IF outcome.ok THEN "success"
    ELSE "error"

EmailNotice(outcome) ==
    CASE EmailBranch(outcome) = "success" -> Modal("Email Sent", outcome.body.message)
      [] EmailBranch(outcome) = "error" ->
            Modal("Error", OrElse(outcome.body.error, "Failed to send email."))
      [] OTHER -> Modal("Error", "Could not connect to the server.")

\* The rest of the email handler, from the settled fetch on.
EmailSettle(r, outcome) ==
    /\ page = "admin"
    /\ r \in pending
    /\ r.kind = "share_email"
    /\ pending' = pending \ {r}
    /\ ShowModal(EmailNotice(outcome).title, EmailNotice(outcome).text)
    /\ lastStep' = Step("EmailSettle", r, outcome, EmailNotice(outcome))
    /\ UNCHANGED <<page, created, accepted, events, sent, alertText, shareVars, surveyVars, currentSurveyId,
                   shareLinkInput, uploadScreenHidden, publishedScreenHidden, href>>

\* The check for a missing survey id left out.
DownloadRefusedNoCheck(surveyId) == FALSE

\* if (!currentSurveyId)
DownloadRefused(surveyId) == ~Truthy(surveyId)

DownloadUrl(surveyId) == "/download/" \o surveyId

DownloadNotice(surveyId) ==
    IF DownloadRefused(surveyId)
      THEN Modal("Error", "Cannot download responses, survey ID is missing.")
      ELSE NoNotice

\* downloadButton click
DownloadClick ==
    /\ page = "admin"
    /\ IF DownloadRefused(currentSurveyId)
         THEN /\ ShowModal(DownloadNotice(currentSurveyId).title,
                           DownloadNotice(currentSurveyId).text)
              /\ UNCHANGED href
         ELSE /\ href' = DownloadUrl(currentSurveyId)
              /\ UNCHANGED <<modalTitle, modalMessage, modalShown>>
    /\ lastStep' = Step("DownloadClick", NoRequest, NoOutcome,
                        DownloadNotice(currentSurveyId))
    /\ UNCHANGED <<page, created, accepted, netVars, alertText, shareVars, surveyVars, currentSurveyId,
                   shareLinkInput, uploadScreenHidden, publishedScreenHidden>>

NextAdmin ==
    \/ CloseModal
    \/ \E f \in Files : SelectFile(f)
    \/ \E r \in pending : \E o \in UploadOutcomes(r.id) : UploadSettle(r, o)
    \/ CopyClick
    \/ \E e \in Emails : EmailClick(e)
    \/ \E r \in pending, o \in ShareEmailOutcomes : EmailSettle(r, o)
    \/ DownloadClick

\* ------------------------------------------------------------- share modal
\* The links a caller hands to openShareModal.
Links == {"/survey/s1"}

SendNowLabel == "Send Now"
SendingLabel == "<i class=\"fa fa-spinner fa-spin\"></i> Sending..."

\* openShareModal(link)
OpenShareModal(link) ==
    /\ page = "modal"
    /\ shareModalHidden
    /\ modalLinkInput' = link
    /\ shareModalHidden' = FALSE
    /\ lastStep' = Step("OpenShareModal", NoRequest, NoOutcome, NoNotice)
    /\ UNCHANGED <<page, created, accepted, netVars, alertText, adminVars, surveyVars,
                   btnExists, btnHTML, btnDisabled>>

\* closeShareModal(), from the close control or a click outside the box
CloseShareModal ==
    /\ page = "modal"
    /\ ~shareModalHidden
    /\ shareModalHidden' = TRUE
    /\ lastStep' = Step("CloseShareModal", NoRequest, NoOutcome, NoNotice)
    /\ UNCHANGED <<page, created, accepted, netVars, alertText, adminVars, surveyVars,
                   btnExists, btnHTML, btnDisabled, modalLinkInput>>

\* if (!email)
SendEmailRejected(email) == EmptyStr(email)

\* const originalContent = btn ? btn.innerHTML : 'Send Now';
OriginalContent == IF btnExists THEN btnHTML ELSE SendNowLabel

SendEmailRequests(email, link) ==
    IF SendEmailRejected(email) THEN {}
    ELSE {NewRequest("share_email", Url("/share_email", <<>>),
                     SharePayload(email, link), OriginalContent)}

SendEmailEarlyNotice(email) ==
    IF SendEmailRejected(email) THEN Alert("Please enter an email address") ELSE NoNotice

\* sendEmail(), up to the fetch.  It is the send button's click handler, and
\* a disabled button receives no click.
SendEmail(email) ==
    /\ page = "modal"
    /\ btnExists => ~btnDisabled
    /\ events < MaxEvents
    /\ Issue("SendEmail", email, SendEmailRequests(email, modalLinkInput),
             SendEmailEarlyNotice(email))
    /\ IF SendEmailRejected(email)
         THEN /\ alertText' = SendEmailEarlyNotice(email).text
              /\ UNCHANGED <<btnHTML, btnDisabled>>
         ELSE /\ UNCHANGED alertText
              /\ IF btnExists
                   THEN btnHTML' = SendingLabel /\ btnDisabled' = TRUE
                   ELSE UNCHANGED <<btnHTML, btnDisabled>>
    /\ UNCHANGED <<page, created, accepted, adminVars, surveyVars, btnExists, shareModalHidden,
                   modalLinkInput>>

\* Which callback of the promise chain handles the outcome.
SendEmailBranch(outcome) ==
    IF outcome.net = "failed" \/ outcome.body.shape = "unparseable" THEN "catch"
    ELSE IF ReadThrows(outcome.body) THEN "catch"
    ELSE IF Truthy(outcome.body.error) THEN "error"
    ELSE "success"

SendEmailNotice(outcome) ==
    CASE SendEmailBranch(outcome) = "success" ->
            Alert(" " \o OrElse(outcome.body.message, "Email sent successfully!"))
      [] SendEmailBranch(outcome) = "error" -> Alert(" Error: " \o outcome.body.error)
      [] OTHER -> Alert(" Failed to connect to server.")

\* The button's content left as the request found it.
RestoredHTMLNotRestored(r) == btnHTML

\* What .finally leaves in the button.
RestoredHTML(r) == r.orig
RestoredDisabled == FALSE

\* The promise chain of sendEmail: then, catch, finally.
SendEmailSettle(r, outcome) ==
    /\ page = "modal"
    /\ r \in pending
    /\ r.kind = "share_email"
    /\ pending' = pending \ {r}
    /\ alertText' = SendEmailNotice(outcome).text
    /\ shareModalHidden' = IF SendEmailBranch(outcome) = "success"
                             THEN TRUE ELSE shareModalHidden
    /\ IF btnExists
         THEN btnHTML' = RestoredHTML(r) /\ btnDisabled' = RestoredDisabled
         ELSE UNCHANGED <<btnHTML, btnDisabled>>
    /\ lastStep' = Step("SendEmailSettle", r, outcome, SendEmailNotice(outcome))
    /\ UNCHANGED <<page, created, accepted, events, sent, adminVars, surveyVars, btnExists, modalLinkInput>>

NextModal ==
    \/ \E l \in Links : OpenShareModal(l)
    \/ CloseShareModal
    \/ \E e \in Emails : SendEmail(e)
    \/ \E r \in pending, o \in ShareEmailOutcomes : SendEmailSettle(r, o)

\* ------------------------------------------------------------------ system
Pages == {"admin", "modal", "survey"}

Init ==
    /\ page \in Pages
    /\ events = 0
    /\ sent = 0
    /\ pending = {}
    /\ alertText = UNDEF
    /\ lastStep = Step("load", NoRequest, NoOutcome, NoNotice)
    /\ created = {}
    /\ accepted = 0
    /\ currentSurveyId = NULL
    /\ shareLinkInput = ""
    /\ uploadScreenHidden = FALSE
    /\ publishedScreenHidden = TRUE
    /\ modalTitle = UNDEF
    /\ modalMessage = UNDEF
    /\ modalShown = FALSE
    /\ href = UNDEF
    /\ btnExists \in (IF page = "modal" THEN BOOLEAN ELSE {TRUE})
    /\ btnHTML = SendNowLabel
    /\ btnDisabled = FALSE
    /\ shareModalHidden = TRUE
    /\ modalLinkInput = ""
    /\ pathname \in (IF page = "survey" THEN Pathnames ELSE {<<"/">>})
    /\ checked = {}
    /\ formDisabled = FALSE
    /\ successModalHidden = TRUE

Next == NextAdmin \/ NextModal \/ NextSurvey

Spec == Init /\ [][Next]_vars

\* ------------------------------------------------------------------ claims
IsEmailStep == lastStep.op \in {"EmailClick", "SendEmail"}
IsEmailSettle == lastStep.op \in {"EmailSettle", "SendEmailSettle"}

\* An email that is empty, or non-empty without an '@'.
SyntacticallyInvalid(email) == email = <<>> \/ \A i \in DOMAIN email : email[i] # "@"

\* C1: in both share-by-email actions an entered email that is empty, or
\* non-empty without an '@', is answered with an error and no POST
\* /share_email is issued.
C1_InvalidEmailIsNotSent ==
    /\ (IsEmailStep /\ SyntacticallyInvalid(lastStep.input)) =>
          (lastStep.req.kind = "none" /\ lastStep.shown.via # "none")
    /\ \A r \in pending :
          r.kind = "share_email" => ~SyntacticallyInvalid(r.payload.email)

\* C2: the body sent to POST /submit/<survey_id> holds, for every (key,
\* value) entry of the form's FormData, entries sharing a key included, that
\* value under that key.
C2_BodyHoldsEveryEntry ==
    (lastStep.op = "Submit" /\ lastStep.req.kind = "submit") =>
        \A i \in DOMAIN lastStep.input :
            /\ lastStep.input[i].name \in DOMAIN lastStep.req.payload
            /\ lastStep.req.payload[lastStep.input[i].name] = lastStep.input[i].value

\* The server reported failure: no response, or a non-OK status.
HttpFailure(resp) == resp.net = "failed" \/ ~resp.ok

\* The notices that tell the user the email was sent.
IsSentNotice(n) ==
    \/ n.via = "modal" /\ n.title = "Email Sent"
    \/ n.via = "alert" /\ n.text \in {" M", " Email sent successfully!"}

\* C3: a failed POST /share_email (no response, or a non-OK status whatever
\* its body) is never presented as "email sent"; a success answered with a
\* {message} body is.
C3_FailureIsNeverShownAsSent ==
    IsEmailSettle =>
        /\ HttpFailure(lastStep.resp) => ~IsSentNotice(lastStep.shown)
        /\ (~HttpFailure(lastStep.resp) /\ lastStep.resp.body.shape = "object"
              /\ ~Truthy(lastStep.resp.body.error)) => IsSentNotice(lastStep.shown)

\* The part of a path after its last '/'.
RECURSIVE AfterLastSlash(_)
AfterLastSlash(path) ==
    IF path = <<>> \/ path[Len(path)] = "/" THEN <<>>
    ELSE Append(AfterLastSlash(SubSeq(path, 1, Len(path) - 1)), path[Len(path)])

\* C4: with no survey id after the last '/' of the page's path a submit shows
\* an error and no request is ever sent; every request sent goes to
\* /submit/<id> with <id> the non-empty last segment of the path.
C4_NoSubmitWithoutSurveyId ==
    page = "survey" =>
        /\ AfterLastSlash(pathname) = <<>> =>
              /\ sent = 0 /\ pending = {}
              /\ lastStep.op = "Submit" =>
                    (lastStep.shown.via = "alert" /\ alertText = lastStep.shown.text)
        /\ \A r \in pending \cup {lastStep.req} :
              r.kind = "submit" =>
                  /\ r.url.prefix = "/submit/"
                  /\ r.url.id # <<>>
                  /\ r.url.id = AfterLastSlash(pathname)

\* A submit was tried on a page whose path ends in '/'.
C4_Witness ==
    /\ lastStep.op = "Submit"
    /\ pathname = <<"/", "a", "/">>
    /\ alertText = "Error: Cannot submit form without a survey ID."
    /\ sent = 0

\* The request failed: a non-OK status, or no response at all.
RequestFailed(resp) == resp.net = "failed" \/ (resp.net = "ok" /\ ~resp.ok)

\* C5: the step that handles a failed upload changes nothing but the
\* notification modal: currentSurveyId and the share-link input keep their
\* values and the two screens stay as they were (before any success: no
\* current survey, upload screen visible, published screen hidden).
C5_FailedUploadChangesOnlyModal ==
    [][(lastStep'.op = "UploadSettle" /\ RequestFailed(lastStep'.resp)) =>
          /\ UNCHANGED <<currentSurveyId, shareLinkInput, uploadScreenHidden,
                         publishedScreenHidden, href, alertText, created,
                         shareVars, surveyVars>>
          /\ modalShown'
          /\ currentSurveyId = NULL =>
                (currentSurveyId' = NULL /\ ~uploadScreenHidden' /\ publishedScreenHidden')
      ]_vars

\* A first upload was answered with a non-OK status.
C5_Witness ==
    /\ lastStep.op = "UploadSettle"
    /\ lastStep.resp.net = "ok" /\ ~lastStep.resp.ok
    /\ lastStep.resp.body.shape = "object"
    /\ modalShown /\ modalTitle = "Upload Failed"
    /\ currentSurveyId = NULL /\ shareLinkInput = ""

MissingIdNotice == Modal("Error", "Cannot download responses, survey ID is missing.")

\* C6: the page has navigated to a download only of a survey an OK upload
\* response returned, at /download/<survey_id>; a download click made while
\* no upload has succeeded shows the 'survey ID is missing' error and
\* navigates nowhere.
C6_DownloadOnlyOfUploadedSurvey ==
    /\ href # UNDEF => \E id \in created : href = "/download/" \o id
    /\ (lastStep.op = "DownloadClick" /\ created = {}) =>
          /\ currentSurveyId \in {NULL, UNDEF}
          /\ lastStep.shown = MissingIdNotice
          /\ modalShown /\ modalMessage = MissingIdNotice.text
          /\ href = UNDEF
    /\ (lastStep.op = "DownloadClick" /\ Truthy(currentSurveyId)) =>
          href = "/download/" \o currentSurveyId

\* A download was clicked after the second of two uploads succeeded.
C6_Witness ==
    /\ lastStep.op = "DownloadClick"
    /\ currentSurveyId = "s2"
    /\ href = "/download/s2"

IsSuccessNotice(n) ==
    \/ IsSentNotice(n)
    \/ n.via = "successModal"
    \/ n.via = "modal" /\ n.title = "Success!"

NoticeIsOnScreen(n) ==
    CASE n.via = "alert" -> alertText = n.text
      [] n.via = "modal" -> modalShown /\ modalTitle = n.title /\ modalMessage = n.text
      [] OTHER -> FALSE

CouldNotConnectTexts == {"Could not connect to the server.", " Failed to connect to server."}

\* C7 as stated: in all three actions a network failure is shown as a
\* 'could not connect' message.
C7_NetworkFailureShowsCouldNotConnect ==
    lastStep.resp.net = "failed" => lastStep.shown.text \in CouldNotConnectTexts

\* C7 as amended: a network failure is caught, no success notice is shown,
\* and the user sees a generic error: a 'could not connect' message for
\* POST /upload and POST /share_email, 'An error occurred while submitting
\* the form.' for POST /submit/<id>.
C7_NetworkFailureShowsGenericError ==
    lastStep.resp.net = "failed" =>
        /\ ~IsSuccessNotice(lastStep.shown)
        /\ NoticeIsOnScreen(lastStep.shown)
        /\ lastStep.req.kind \in {"upload", "share_email"} =>
              lastStep.shown.text \in CouldNotConnectTexts
        /\ lastStep.req.kind = "submit" =>
              lastStep.shown.text = "An error occurred while submitting the form."
        /\ page = "admin" => lastStep.shown.title = "Error"

\* The POST /submit request of a survey page failed at network level.
C7_Witness ==
    /\ lastStep.op = "SubmitSettle"
    /\ lastStep.resp.net = "failed"
    /\ alertText = "An error occurred while submitting the form."

\* C8: no retries.  Requests never outnumber user events; a step that is no
\* user event (the handling of a response or of a failure) issues nothing;
\* a user event issues at most one request.
C8_NoRetries ==
    /\ [](sent <= events)
    /\ [][/\ events' = events => (sent' = sent /\ pending' \subseteq pending)
          /\ events' # events =>
                /\ events' = events + 1
                /\ sent' \in {sent, sent + 1}
                /\ Cardinality(pending' \ pending) = sent' - sent
      ]_vars

\* The one request of the one user event has failed and nothing is pending.
C8_Witness ==
    /\ lastStep.resp.net = "failed"
    /\ events = 1 /\ sent = 1
    /\ pending = {}

\* The submission was answered with success.
SubmitAnswered(resp) == resp.net = "ok" /\ resp.ok /\ resp.body.shape \in {"object", "null"}

\* C9: after a submission answered with success the form is reset, disabled
\* and the success modal shown; after a submission that fails the form is
\* not disabled, so that the user can submit again.
C9_FailedSubmitLeavesFormUsable ==
    lastStep.op = "SubmitSettle" =>
        /\ SubmitAnswered(lastStep.resp) =>
              (checked = {} /\ formDisabled /\ ~successModalHidden)
        /\ RequestFailed(lastStep.resp) => ~formDisabled

\* C10: while a POST /share_email of sendEmail is pending the send button is
\* disabled and shows the 'Sending...' label; once it has settled, in
\* whatever way, the button is enabled and shows what it showed before the
\* request; the early return for an empty email leaves it enabled.
C10_SendButtonRestored ==
    (page = "modal" /\ btnExists) =>
        /\ pending # {} => (btnDisabled /\ btnHTML = SendingLabel)
        /\ pending = {} => (~btnDisabled /\ btnHTML = SendNowLabel)
        /\ lastStep.op = "SendEmailSettle" =>
              (~btnDisabled /\ btnHTML = lastStep.req.orig
                 /\ lastStep.req.orig = SendNowLabel)
        /\ (lastStep.op = "SendEmail" /\ lastStep.input = <<>>) =>
              (~btnDisabled /\ lastStep.req.kind = "none")

\* A second request of sendEmail has settled with an unparseable body.
C10_Witness ==
    /\ btnExists
    /\ lastStep.op = "SendEmailSettle"
    /\ lastStep.req.id = 2
    /\ lastStep.resp.body.shape = "unparseable"
    /\ ~btnDisabled /\ btnHTML = SendNowLabel

PendingSubmits == {r \in pending : r.kind = "submit"}

\* C11: from one page load at most one submission is accepted by the
\* backend: at most one POST /submit is in flight at a time, and no more
\* than one is ever answered with an OK status.
C11_AtMostOneSubmissionAccepted ==
    page = "survey" =>
        /\ Cardinality(PendingSubmits) <= 1
        /\ accepted <= 1

PendingUploads == {r \in pending : r.kind = "upload"}

\* The requests, by id, whose upload the backend answered with a survey.
CreatedIds == {k \in 1..sent : SurveyIdFor(k) \in created}

\* The id used for download and the link shown for sharing come from one
\* upload response (or are both still unset).
SameSurvey ==
    \/ currentSurveyId = NULL /\ shareLinkInput = ""
    \/ currentSurveyId = UNDEF /\ shareLinkInput = "undefined"
    \/ \E k \in CreatedIds :
          currentSurveyId = SurveyIdFor(k) /\ shareLinkInput = SurveyUrlFor(k)

\* C12: currentSurveyId and the share link always come from one and the
\* same upload response, and once every upload has been answered (here:
\* each with a survey of its own) they are those of the file selected last.
C12_CurrentSurveyIsLastSelected ==
    page = "admin" =>
        /\ SameSurvey
        /\ (PendingUploads = {} /\ sent >= 1 /\ CreatedIds = 1..sent) =>
              (currentSurveyId = SurveyIdFor(sent)
                 /\ shareLinkInput = SurveyUrlFor(sent))

=============================================================================
